---- MODULE Spec2Model ----
(***************************************************************************)
(* A model of pyveg's analysis pipeline                                    *)
(*   src/pyveg/src/data_analysis_utils.py                                  *)
(*   src/pyveg/scripts/analyse_gee_data.py                                 *)
(* Each function of the pipeline is a small state machine over the tables  *)
(* it builds; the variable `call` names the function that was invoked and  *)
(* `pc` its position.  Tables are sequences of rows, rows are records.     *)
(***************************************************************************)
EXTENDS Integers, Sequences, FiniteSets, TLC

VARIABLES
    call,         \* the function under execution
    pc,           \* its position: a loop head, "returned" or "raised"
    error,        \* the exception that ended the call, NoError while none
    \* ---- coarse_dataframe
    data_df,      \* the table: rows [date, geometry, category]
    side_square,  \* its second parameter (the block size)
    n,            \* the loop variable of the greedy pass (0-based)
    category,     \* the label counter
    coarse_out,   \* the dissolved table that is returned
    \* ---- the input file of the ingestion functions
    filename,     \* the path given to the function
    file,         \* what is at that path: "missing", "malformed" or "json"
    json_file,    \* the file handle: "none", "open" or "closed"
    \* ---- read_json_to_dataframe
    veg_df,       \* rows [index, date, lat, long, offset50]
    weather_df,   \* rows [index, date, metrics]
    rj_i,         \* i, the index label of the next new row
    ci,           \* position in data.items() of the collection being read
    used,         \* date keys of that collection already read
    matched_indices, \* the result of the latest lookup
    data_geo_pd,  \* the merged table that is returned
    nrec,         \* number of time-series entries read so far
    seen,         \* history: the (date, lat, long) triples read so far
    \* ---- variable_read_json_to_dataframe
    data,         \* history: the entries read so far, per collection
    rows_list,    \* the rows of the collection being read
    dfs,          \* the dict that is returned: collection name -> table
    \* ---- make_time_series
    dfs_in,       \* history: the dict as it was passed in
    \* ---- create_lat_long_metric_figures
    fig_df,       \* the table: rows [date, metric columns]
    metric,       \* the column to plot
    output_dir,   \* the directory of the figures
    list_of_dates, \* np.unique(data_df['date'])
    date_pos,     \* number of dates the loop is done with
    date_str,     \* the local date_str, Null while unbound
    printed,      \* the warnings printed
    \* ---- the file system and main
    dirs,         \* the directories created
    files,        \* the figures saved
    input_dir,    \* --input_dir
    spatial_plot, \* --spatial_plot
    stages,       \* history: the stages main has started, in order
    \* ---- convert_to_geopandas
    geo_df,       \* the caller's table, the object the argument refers to
    geo_arg,      \* the argument df: "table" or "None"
    geo_ret,      \* what the latest call returned: "unset", "table" or "None"
    geo_in,       \* history: the caller's table before the first call
    geo_calls     \* number of calls made

coarseVars == <<data_df, side_square, n, category, coarse_out>>
fileVars == <<filename, file, json_file>>
rjVars == <<veg_df, weather_df, rj_i, ci, used, matched_indices, data_geo_pd,
           nrec, seen>>
vrVars == <<data, rows_list, dfs>>
tsVars == <<dfs_in>>
figVars == <<fig_df, metric, output_dir, list_of_dates, date_pos, date_str,
             printed>>
fsVars == <<dirs, files>>
mainVars == <<input_dir, spatial_plot, stages>>
geoVars == <<geo_df, geo_arg, geo_ret, geo_in, geo_calls>>
outerVars == <<tsVars, figVars, fsVars, mainVars, geoVars>>
vars == <<call, pc, error, coarseVars, fileVars, rjVars, vrVars, tsVars,
          figVars, fsVars, mainVars, geoVars>>

----------------------------------------------------------------------------
(* Bounds and input domains *)

MaxRows == 4
MaxBlock == 2
MaxRecords == 3

Dates == {"2020-01-01", "2020-02-01"}
Lats == {0, 1}
Longs == {0, 1}

NoError == [kind |-> "none", msg |-> ""]

Min(a, b) == IF a <= b THEN a ELSE b

SeqsUpTo(S, k) == UNION {[1..m -> S] : m \in 0..k}

Range(s) == {s[i] : i \in DOMAIN s}

\* A missing value of a table cell (NaN); a present value v is <<v>>.
Null == <<>>
Cell(v) == <<v>>

\* Paths: [abs, parts]; os.path.join appends a component, os.path.abspath
\* puts the working directory in front of a relative path.
Cwd == [abs |-> TRUE, parts |-> <<"home">>]
Join(p, name) == [p EXCEPT !.parts = Append(p.parts, name)]
AbsPath(p) ==
    IF p.abs THEN p ELSE [abs |-> TRUE, parts |-> Cwd.parts \o p.parts]
RelativeDir == [abs |-> FALSE, parts |-> <<"results">>]
Paths == {RelativeDir, [abs |-> TRUE, parts |-> <<"data", "results">>]}

\* The values of the variables of the functions that are not running.
IdleCoarse ==
    /\ data_df = <<>> /\ side_square = 0 /\ n = 0 /\ category = 0
    /\ coarse_out = {}
IdleFile ==
    /\ filename = Null /\ file = "none" /\ json_file = "none"
IdleReadJson ==
    /\ veg_df = <<>> /\ weather_df = <<>> /\ rj_i = 0 /\ ci = 0
    /\ used = {} /\ matched_indices = <<>> /\ data_geo_pd = <<>> /\ nrec = 0
    /\ seen = {}

IdleVarRead ==
    /\ data = <<>> /\ rows_list = <<>> /\ dfs = <<>>
IdleTimeSeries ==
    dfs_in = <<>>
IdleFigures ==
    /\ fig_df = <<>> /\ metric = "" /\ output_dir = Null
    /\ list_of_dates = <<>> /\ date_pos = 0 /\ date_str = Null
    /\ printed = <<>>
IdleMain ==
    /\ input_dir = Null /\ spatial_plot = FALSE /\ stages = <<>>
IdleGeopandas ==
    /\ geo_df = <<>> /\ geo_arg = "None" /\ geo_ret = "unset"
    /\ geo_in = <<>> /\ geo_calls = 0
NothingWritten ==
    /\ dirs = {} /\ files = {}

----------------------------------------------------------------------------
(* coarse_dataframe *)

\* The int -1 that line 360 writes in every row's category.  Labels are
\* str(category) with category >= 0, so no label equals it.
Unassigned == "-1"

\* str(category) for the counters the bounds allow.
Str(k) == <<"0", "1", "2", "3", "4", "5", "6", "7", "8", "9">>[k + 1]

\* shapely's planar distance between two points, squared: the square root
\* is strictly increasing, so order and equality of distances are those of
\* the squares.
Distance(p, q) ==
    (p[1] - q[1]) * (p[1] - q[1]) + (p[2] - q[2]) * (p[2] - q[2])

DistancesWithinDate(df, k) ==
    [i \in 1..Len(df) |->
        <<i, Distance(df[i].geometry, df[k].geometry),
          IF df[i].date = df[k].date THEN df[k].category ELSE "other">>]

\* Line 369: one triple per row i of the table: its position, its distance
\* to row k, and the category of row k (the row under the loop variable).
Distances(df, k) ==
    [i \in 1..Len(df) |->
        <<i, Distance(df[i].geometry, df[k].geometry), df[k].category>>]

\* Line 370: list.sort(key=dist) is a stable sort: insertion keeps the
\* earlier of two equal keys first.
RECURSIVE InsertByDist(_, _)
InsertByDist(t, s) ==
    IF s = <<>> THEN <<t>>
    ELSE IF t[2] < Head(s)[2] THEN <<t>> \o s
    ELSE <<Head(s)>> \o InsertByDist(t, Tail(s))

RECURSIVE SortByDist(_)
SortByDist(s) ==
    IF s = <<>> THEN <<>>
    ELSE InsertByDist(s[Len(s)], SortByDist(SubSeq(s, 1, Len(s) - 1)))

\* Line 373: keep the triples whose third component is -1.
OnlyUnassigned(s) == SelectSeq(s, LAMBDA t : t[3] = Unassigned)

\* np.unique: the distinct values in ascending order.
RECURSIVE Unique(_)
Unique(S) ==
    IF S = {} THEN <<>>
    ELSE LET m == CHOOSE x \in S : \A y \in S : x <= y
         IN  <<m>> \o Unique(S \ {m})

FirstDistancesHalved(u, b) == SubSeq(u, 1, Min(Len(u), b))

\* Line 376, the slice: the first 2 * side_square distinct distances.
FirstDistances(u, b) == SubSeq(u, 1, Min(Len(u), 2 * b))

\* Line 376: np.max of the slice.
MaxDist(s, b) ==
    LET u == FirstDistances(Unique({s[i][2] : i \in DOMAIN s}), b)
    IN  CHOOSE m \in Range(u) : \A y \in Range(u) : y <= m

\* Line 379: the positions of the triples within max_dist.
WithinStrict(d, max_dist) == d < max_dist

Within(d, max_dist) == d <= max_dist

Indexes(s, max_dist) ==
    LET kept == SelectSeq(s, LAMBDA t : Within(t[2], max_dist))
    IN  [i \in DOMAIN kept |-> kept[i][1]]

\* Line 383: data_df.loc[indexes, 'category'] = str(category).
Assign(df, indexes, label) ==
    [i \in DOMAIN df |->
        IF i \in Range(indexes) THEN [df[i] EXCEPT !.category = label]
        ELSE df[i]]

\* Lines 369-383 for the row at position k (1-based here).
Labelled(df, k, b, c) ==
    LET distances == OnlyUnassigned(SortByDist(Distances(df, k)))
        max_dist == MaxDist(distances, b)
    IN  Assign(df, Indexes(distances, max_dist), Str(c))

\* Line 388: category.str.cat(date, sep="_").
CategoryDate(row) == row.category \o "_" \o row.date

DissolveByCategory(df) ==
    LET keys == {df[i].category : i \in DOMAIN df}
    IN  {[category |-> k,
          date     |-> df[CHOOSE i \in DOMAIN df : df[i].category = k].date,
          members  |-> {i \in DOMAIN df : df[i].category = k},
          geometry |-> {df[i].geometry : i \in
                           {j \in DOMAIN df : df[j].category = k}}]
         : k \in keys}

\* Lines 388-393: one output row per (category, date) group of the table
\* after line 388; dissolve unions the geometries of a group, and line 393
\* puts the group's date back.  (The order of the rows is not modelled.)
Dissolve(df) ==
    LET keys == {<<CategoryDate(df[i]), df[i].date>> : i \in DOMAIN df}
    IN  {[category |-> k[1],
          date     |-> k[2],
          members  |-> {i \in DOMAIN df :
                           <<CategoryDate(df[i]), df[i].date>> = k},
          geometry |-> {df[i].geometry : i \in
                           {j \in DOMAIN df :
                               <<CategoryDate(df[j]), df[j].date>> = k}}]
         : k \in keys}

CoarseRows == [date : Dates, geometry : Lats \X Longs]

\* A call coarse_dataframe(data_df, side_square); line 360 has run.
InitCoarse ==
    /\ call = "coarse_dataframe"
    /\ pc = "loop"
    /\ error = NoError
    /\ \E t \in SeqsUpTo(CoarseRows, MaxRows) :
          data_df = [i \in DOMAIN t |->
                        [date |-> t[i].date, geometry |-> t[i].geometry,
                         category |-> Unassigned]]
    /\ side_square \in 1..MaxBlock
    /\ n = 0
    /\ category = 0
    /\ coarse_out = {}
    /\ IdleFile /\ IdleReadJson /\ IdleVarRead
    /\ IdleTimeSeries /\ IdleFigures /\ IdleMain /\ NothingWritten
    /\ IdleGeopandas

\* Lines 363-385, one iteration on a row that has no category.
CoarseAssign ==
    /\ call = "coarse_dataframe" /\ pc = "loop"
    /\ n < Len(data_df)
    /\ data_df[n + 1].category = Unassigned
    /\ data_df' = Labelled(data_df, n + 1, side_square, category)
    /\ category' = category + 1
    /\ n' = n + 1
    /\ UNCHANGED <<call, pc, error, side_square, coarse_out>>
    /\ UNCHANGED <<fileVars, rjVars, vrVars, outerVars>>

\* Lines 363-366, one iteration on a row that has a category.
CoarseSkip ==
    /\ call = "coarse_dataframe" /\ pc = "loop"
    /\ n < Len(data_df)
    /\ data_df[n + 1].category # Unassigned
    /\ n' = n + 1
    /\ UNCHANGED <<call, pc, error, data_df, side_square, category,
                   coarse_out>>
    /\ UNCHANGED <<fileVars, rjVars, vrVars, outerVars>>

\* Lines 387-395.  On a table without rows the category column still holds
\* integers and .str raises.
CoarseDissolve ==
    /\ call = "coarse_dataframe" /\ pc = "loop"
    /\ n = Len(data_df)
    /\ IF Len(data_df) = 0
       THEN /\ pc' = "raised"
            /\ error' = [kind |-> "AttributeError", msg |-> ".str"]
            /\ UNCHANGED <<data_df, coarse_out>>
       ELSE /\ pc' = "returned"
            /\ data_df' = [i \in DOMAIN data_df |->
                  [data_df[i] EXCEPT !.category = CategoryDate(data_df[i])]]
            /\ coarse_out' = Dissolve(data_df)
            /\ UNCHANGED error
    /\ UNCHANGED <<call, side_square, n, category>>
    /\ UNCHANGED <<fileVars, rjVars, vrVars, outerVars>>

NextCoarse == CoarseAssign \/ CoarseSkip \/ CoarseDissolve

SpecCoarse == InitCoarse /\ [][NextCoarse]_vars

----------------------------------------------------------------------------
(* Properties of coarse_dataframe *)

RECURSIVE SumOver(_, _)
SumOver(S, f) ==
    IF S = {} THEN 0
    ELSE LET x == CHOOSE y \in S : TRUE
         IN  f[x] + SumOver(S \ {x}, f)

\* The labels handed out so far, and the rows that carry one of them.
Labels == {Str(c) : c \in 0..(category - 1)}
Block(label) == {i \in DOMAIN data_df : data_df[i].category = label}
BlockSize(label) == Cardinality(Block(label))
UsedLabels == {data_df[i].category : i \in DOMAIN data_df}

PassDone == call = "coarse_dataframe" /\ pc = "loop" /\ n = Len(data_df)

\* C1: when the greedy pass of coarse_dataframe ends, every row carries one
\* of the labels handed out and none is left at -1, so the sizes of the
\* blocks sum to the number of rows; the rows of the returned table
\* partition the input rows likewise.
C1_EveryRowLabelled ==
    /\ PassDone =>
          /\ \A i \in DOMAIN data_df :
                /\ data_df[i].category # Unassigned
                /\ data_df[i].category \in Labels
          /\ SumOver(Labels, [l \in Labels |-> BlockSize(l)]) = Len(data_df)
    /\ (call = "coarse_dataframe" /\ pc = "returned") =>
          /\ SumOver(coarse_out,
                     [r \in coarse_out |-> Cardinality(r.members)])
                 = Len(data_df)
          /\ \A r1, r2 \in coarse_out :
                r1 # r2 => r1.members \cap r2.members = {}

C1_Witness ==
    /\ PassDone
    /\ Len(data_df) >= 3
    /\ Cardinality(UsedLabels) >= 2

----------------------------------------------------------------------------
(* read_json_to_dataframe *)

\* The collections of the input JSON in the order of data.items(), with
\* their 'type' (the names and types of config.py).  A collection may have
\* no time-series entry at all.
Collections ==
    << [name |-> "COPERNICUS/S2", type |-> "vegetation"],
       [name |-> "LANDSAT/LC08/C01/T1_SR", type |-> "vegetation"],
       [name |-> "NOAA/PERSIANN-CDR", type |-> "precipitation"],
       [name |-> "ECMWF/ERA5/MONTHLY", type |-> "unsupported"] >>

\* The values of a metric, and the names of the weather metrics.
Vals == {1, 2}
Metrics == {"precipitation"}

\* f'{collection_name}_offset50'
Column(collection_name) == collection_name \o "_offset50"
VegColumns ==
    {Column(Collections[c].name) : c \in
        {k \in DOMAIN Collections : Collections[k].type = "vegetation"}}
WeatherColumns == {"date"} \cup Metrics

\* Line 69: the match criteria of one row.
MatchDateLat(row, date, lat, long) ==
    row.date = date /\ row.lat = lat

MatchCriteria(row, date, lat, long) ==
    row.date = date /\ row.lat = lat /\ row.long = long

\* Line 70: the index labels of the rows that match.
VegMatched(veg, date, lat, long) ==
    LET hit == SelectSeq(veg, LAMBDA row : MatchCriteria(row, date, lat, long))
    IN  [k \in DOMAIN hit |-> hit[k].index]

\* Line 115: the index labels of the weather rows with this date.
WeatherMatched(weather, date) ==
    LET hit == SelectSeq(weather, LAMBDA row : row.cols["date"] = Cell(date))
    IN  [k \in DOMAIN hit |-> hit[k].index]

\* Lines 73 and 118: the test of the first branch.
NoMatchOrOne(m) == Len(m) <= 1

NoMatch(m) == Len(m) = 0

\* Lines 76-79: veg_df.loc[i, ...] = ... makes the row of label i.
VegNewRow(label, collection_name, date, lat, long, offset50) ==
    [index |-> label, date |-> date, lat |-> lat, long |-> long,
     cols  |-> [c \in VegColumns |->
                  IF c = Column(collection_name) THEN Cell(offset50)
                  ELSE Null]]

\* Line 91: veg_df.loc[index, column] = offset50.
VegSetColumn(veg, label, collection_name, offset50) ==
    [k \in DOMAIN veg |->
        IF veg[k].index = label
        THEN [veg[k] EXCEPT !.cols[Column(collection_name)] = Cell(offset50)]
        ELSE veg[k]]

\* Lines 121-123 and 134-137: every metric of `values` is written in the
\* column of its name; a new row also gets the date.  No metric of Metrics
\* is called 'date'.
WeatherNewRow(label, date, values) ==
    [index |-> label,
     cols  |-> [c \in WeatherColumns |->
                  IF c \in DOMAIN values THEN Cell(values[c])
                  ELSE IF c = "date" THEN Cell(date)
                  ELSE Null]]

WeatherSetColumns(weather, label, values) ==
    [k \in DOMAIN weather |->
        IF weather[k].index = label
        THEN [weather[k] EXCEPT !.cols =
                 [c \in WeatherColumns |->
                    IF c \in DOMAIN values THEN Cell(values[c]) ELSE @[c]]]
        ELSE weather[k]]

\* Line 143: pd.merge(veg_df, weather_df, on='date', how=...).  A row of the
\* result is [date, left, right]: the vegetation row and the weather row it
\* joins, Null for the side that has no row of that date.  (pandas sorts
\* the result by key; the order of the rows is not modelled.)
RECURSIVE Flatten(_)
Flatten(ss) == IF ss = <<>> THEN <<>> ELSE Head(ss) \o Flatten(Tail(ss))

LeftJoined(veg, weather) ==
    Flatten([k \in DOMAIN veg |->
        LET hit == SelectSeq(weather,
                       LAMBDA w : w.cols["date"] = Cell(veg[k].date))
        IN  IF hit = <<>>
            THEN << [date |-> Cell(veg[k].date), left |-> Cell(veg[k]),
                     right |-> Null] >>
            ELSE [j \in DOMAIN hit |->
                    [date |-> Cell(veg[k].date), left |-> Cell(veg[k]),
                     right |-> Cell(hit[j])]]])

RightOnly(veg, weather) ==
    LET rest == SelectSeq(weather, LAMBDA w :
                    \A k \in DOMAIN veg : Cell(veg[k].date) # w.cols["date"])
    IN  [j \in DOMAIN rest |->
            [date |-> rest[j].cols["date"], left |-> Null,
             right |-> Cell(rest[j])]]

MergeLeft(veg, weather) == LeftJoined(veg, weather)

Merge(veg, weather) == LeftJoined(veg, weather) \o RightOnly(veg, weather)

\* Lines 146-148: the geometry column, Point(lat, long) of every row.
WithGeometry(t) ==
    [k \in DOMAIN t |->
        [date |-> t[k].date, left |-> t[k].left, right |-> t[k].right,
         geometry |-> IF t[k].left = Null THEN Null
                      ELSE Cell(<<t[k].left[1].lat, t[k].left[1].long>>)]]

RuntimeError ==
    [kind |-> "RuntimeError",
     msg  |-> <<"Error when building DataFrame, check input json.">>]

\* A call read_json_to_dataframe(filename).
InitReadJson ==
    /\ call = "read_json_to_dataframe"
    /\ pc = "start"
    /\ error = NoError
    /\ filename = Join(RelativeDir, "results_summary.json")
    /\ file \in {"missing", "malformed", "json"}
    /\ json_file = "none"
    /\ IdleReadJson /\ IdleCoarse /\ IdleVarRead
    /\ IdleTimeSeries /\ IdleFigures /\ IdleMain /\ NothingWritten
    /\ IdleGeopandas

\* Lines 30-31: the file does not exist.
RJFileNotFound ==
    /\ call = "read_json_to_dataframe" /\ pc = "start"
    /\ file = "missing"
    /\ pc' = "raised"
    /\ error' = [kind |-> "FileNotFoundError", msg |-> <<>>]
    /\ UNCHANGED <<outerVars, vrVars, call, coarseVars, fileVars, rjVars>>

\* Lines 35-36: json.load raises inside the with block, which closes the
\* file.
RJLoadFails ==
    /\ call = "read_json_to_dataframe" /\ pc = "start"
    /\ file = "malformed"
    /\ json_file' = "closed"
    /\ pc' = "raised"
    /\ error' = [kind |-> "JSONDecodeError", msg |-> <<>>]
    /\ UNCHANGED <<outerVars, vrVars, call, coarseVars, filename, file,
                   rjVars>>

\* Lines 33-47: the file is read and closed, the tables start empty.
RJLoad ==
    /\ call = "read_json_to_dataframe" /\ pc = "start"
    /\ file = "json"
    /\ json_file' = "closed"
    /\ pc' = "veg"
    /\ ci' = 1
    /\ rj_i' = 0
    /\ UNCHANGED <<outerVars, vrVars, call, error, coarseVars, filename, file,
                   veg_df, weather_df, used, matched_indices, data_geo_pd,
                   nrec, seen>>

InVegLoop ==
    /\ call = "read_json_to_dataframe" /\ pc = "veg"
    /\ ci \in DOMAIN Collections

\* Lines 50-51: a collection that is not vegetation is skipped.
RJVegSkipCollection ==
    /\ InVegLoop
    /\ Collections[ci].type # "vegetation"
    /\ ci' = ci + 1
    /\ UNCHANGED <<outerVars, vrVars, call, pc, error, coarseVars, fileVars,
                   veg_df, weather_df, rj_i, used, matched_indices,
                   data_geo_pd, nrec, seen>>

\* Line 54: the time series of a vegetation collection is exhausted.
RJVegEndCollection ==
    /\ InVegLoop
    /\ Collections[ci].type = "vegetation"
    /\ ci' = ci + 1
    /\ UNCHANGED <<outerVars, vrVars, call, pc, error, coarseVars, fileVars,
                   veg_df, weather_df, rj_i, used, matched_indices,
                   data_geo_pd, nrec, seen>>

\* Lines 57-58: a time point that is null.
RJVegNull ==
    /\ InVegLoop
    /\ Collections[ci].type = "vegetation"
    /\ nrec < MaxRecords
    /\ nrec' = nrec + 1
    /\ UNCHANGED <<outerVars, vrVars, call, pc, error, coarseVars, fileVars,
                   veg_df, weather_df, rj_i, ci, used, matched_indices,
                   data_geo_pd, seen>>

\* Lines 61-94: one space point of a time point.
RJVegRecord ==
    /\ InVegLoop
    /\ Collections[ci].type = "vegetation"
    /\ nrec < MaxRecords
    /\ \E date \in Dates, lat \in Lats, long \in Longs, offset50 \in Vals :
        LET m == VegMatched(veg_df, date, lat, long)
        IN  /\ matched_indices' = m
            /\ seen' = seen \cup {<<date, lat, long>>}
            /\ IF NoMatch(m)
               THEN /\ veg_df' = Append(veg_df,
                          VegNewRow(rj_i, Collections[ci].name, date, lat,
                                    long, offset50))
                    /\ rj_i' = rj_i + 1
                    /\ UNCHANGED <<pc, error>>
               ELSE IF Len(m) = 1
               THEN /\ veg_df' = VegSetColumn(veg_df, m[1],
                                     Collections[ci].name, offset50)
                    /\ UNCHANGED <<rj_i, pc, error>>
               ELSE /\ pc' = "raised"
                    /\ error' = RuntimeError
                    /\ UNCHANGED <<veg_df, rj_i>>
    /\ nrec' = nrec + 1
    /\ UNCHANGED <<outerVars, vrVars, call, coarseVars, fileVars, weather_df,
                   ci, used, data_geo_pd>>

\* Lines 96-101: the first loop is over, the second starts with i = 0.
RJStartWeather ==
    /\ call = "read_json_to_dataframe" /\ pc = "veg"
    /\ ci = Len(Collections) + 1
    /\ pc' = "weather"
    /\ ci' = 1
    /\ rj_i' = 0
    /\ UNCHANGED <<outerVars, vrVars, call, error, coarseVars, fileVars,
                   veg_df, weather_df, used, matched_indices, data_geo_pd,
                   nrec, seen>>

InWeatherLoop ==
    /\ call = "read_json_to_dataframe" /\ pc = "weather"
    /\ ci \in DOMAIN Collections

\* Lines 104-105: a vegetation collection is skipped.
RJWeatherSkipCollection ==
    /\ InWeatherLoop
    /\ Collections[ci].type = "vegetation"
    /\ ci' = ci + 1
    /\ UNCHANGED <<outerVars, vrVars, call, pc, error, coarseVars, fileVars,
                   veg_df, weather_df, rj_i, used, matched_indices,
                   data_geo_pd, nrec, seen>>

\* Line 108: the time series of a weather collection is exhausted.
RJWeatherEndCollection ==
    /\ InWeatherLoop
    /\ Collections[ci].type # "vegetation"
    /\ ci' = ci + 1
    /\ used' = {}
    /\ UNCHANGED <<outerVars, vrVars, call, pc, error, coarseVars, fileVars,
                   veg_df, weather_df, rj_i, matched_indices, data_geo_pd,
                   nrec, seen>>

\* Lines 111-112: a date whose values are null.  The dates of one
\* collection are the keys of a JSON object: each occurs once.
RJWeatherNull ==
    /\ InWeatherLoop
    /\ Collections[ci].type # "vegetation"
    /\ nrec < MaxRecords
    /\ \E date \in Dates \ used : used' = used \cup {date}
    /\ nrec' = nrec + 1
    /\ UNCHANGED <<outerVars, vrVars, call, pc, error, coarseVars, fileVars,
                   veg_df, weather_df, rj_i, ci, matched_indices, data_geo_pd,
                   seen>>

\* Lines 114-140: one date of a weather collection, with its metrics.
RJWeatherEntry ==
    /\ InWeatherLoop
    /\ Collections[ci].type # "vegetation"
    /\ nrec < MaxRecords
    /\ \E date \in Dates \ used, ms \in SUBSET Metrics :
        \E values \in [ms -> Vals] :
        LET m == WeatherMatched(weather_df, date)
        IN  /\ used' = used \cup {date}
            /\ matched_indices' = m
            /\ IF NoMatch(m)
               THEN /\ weather_df' =
                          IF ms = {} THEN weather_df
                          ELSE Append(weather_df,
                                      WeatherNewRow(rj_i, date, values))
                    /\ rj_i' = rj_i + 1
                    /\ UNCHANGED <<pc, error>>
               ELSE IF Len(m) = 1
               THEN /\ weather_df' = WeatherSetColumns(weather_df, m[1], values)
                    /\ UNCHANGED <<rj_i, pc, error>>
               ELSE /\ pc' = "raised"
                    /\ error' = RuntimeError
                    /\ UNCHANGED <<weather_df, rj_i>>
    /\ nrec' = nrec + 1
    /\ UNCHANGED <<outerVars, vrVars, call, coarseVars, fileVars, veg_df, ci,
                   data_geo_pd, seen>>

\* Lines 142-150: the second loop is over; merge, add the geometry, return.
RJMerge ==
    /\ call = "read_json_to_dataframe" /\ pc = "weather"
    /\ ci = Len(Collections) + 1
    /\ data_geo_pd' = WithGeometry(Merge(veg_df, weather_df))
    /\ pc' = "returned"
    /\ UNCHANGED <<outerVars, vrVars, call, error, coarseVars, fileVars,
                   veg_df, weather_df, rj_i, ci, used, matched_indices, nrec,
                   seen>>

NextReadJson ==
    \/ RJFileNotFound \/ RJLoadFails \/ RJLoad
    \/ RJVegSkipCollection \/ RJVegEndCollection \/ RJVegNull \/ RJVegRecord
    \/ RJStartWeather
    \/ RJWeatherSkipCollection \/ RJWeatherEndCollection \/ RJWeatherNull
    \/ RJWeatherEntry
    \/ RJMerge

SpecReadJson == InitReadJson /\ [][NextReadJson]_vars

----------------------------------------------------------------------------
(* Properties of read_json_to_dataframe *)

InReadJson == call = "read_json_to_dataframe"

Triple(row) == <<row.date, row.lat, row.long>>
Triples(veg) == {Triple(veg[k]) : k \in DOMAIN veg}

\* The step leaves the number of rows alone and changes nothing but the
\* offset50 column of the collection being read, in one row at most.
OnlyOneColumnSet ==
    /\ Len(veg_df') = Len(veg_df)
    /\ \A k \in DOMAIN veg_df :
          /\ [veg_df'[k] EXCEPT !.cols = veg_df[k].cols] = veg_df[k]
          /\ \A c \in VegColumns \ {Column(Collections[ci].name)} :
                veg_df'[k].cols[c] = veg_df[k].cols[c]
    /\ Cardinality({k \in DOMAIN veg_df : veg_df'[k] # veg_df[k]}) <= 1

\* The step appends one row, of the new triple, and changes no other row.
OneRowAppended ==
    /\ Len(veg_df') = Len(veg_df) + 1
    /\ SubSeq(veg_df', 1, Len(veg_df)) = veg_df
    /\ seen' = seen \cup {Triple(veg_df'[Len(veg_df')])}

\* C3: after every vegetation record the vegetation table has exactly one
\* row per distinct (date, lat, long) read so far; a record of a known
\* triple only sets its collection's offset50 column in one row, a record
\* of a new triple appends one row.
C3_OneRowPerTriple ==
    /\ [](InReadJson =>
            /\ Triples(veg_df) = seen
            /\ Len(veg_df) = Cardinality(seen))
    /\ [][(InReadJson /\ pc = "veg" /\ pc' = "veg") =>
            /\ seen' = seen => OnlyOneColumnSet
            /\ seen' # seen => OneRowAppended]_vars

C3_Witness ==
    /\ InReadJson /\ pc = "veg"
    /\ Len(veg_df) = 2
    /\ nrec = 3
    /\ \E k \in DOMAIN veg_df : \A c \in VegColumns : veg_df[k].cols[c] # Null

\* C5: the returned table is the outer join on date: its dates are those
\* of both tables, every vegetation row is in it once (with the weather row
\* of its date, Null if there is none), every weather row whose date no
\* vegetation row has is in it once with a Null vegetation side, and it has
\* no other row.
VegDates == {Cell(veg_df[k].date) : k \in DOMAIN veg_df}
WeatherDates == {weather_df[k].cols["date"] : k \in DOMAIN weather_df}

C5_OuterJoinOnDate ==
    (InReadJson /\ pc = "returned") =>
        /\ {data_geo_pd[j].date : j \in DOMAIN data_geo_pd}
              = VegDates \cup WeatherDates
        /\ \A k \in DOMAIN veg_df :
              LET at == {j \in DOMAIN data_geo_pd :
                            data_geo_pd[j].left = Cell(veg_df[k])}
              IN  /\ Cardinality(at) = 1
                  /\ \A j \in at :
                        IF Cell(veg_df[k].date) \in WeatherDates
                        THEN /\ data_geo_pd[j].right # Null
                             /\ data_geo_pd[j].right[1].cols["date"]
                                   = Cell(veg_df[k].date)
                        ELSE data_geo_pd[j].right = Null
        /\ \A d \in WeatherDates \ VegDates :
              LET at == {j \in DOMAIN data_geo_pd : data_geo_pd[j].date = d}
              IN  /\ Cardinality(at) = 1
                  /\ \A j \in at : data_geo_pd[j].left = Null
        /\ Len(data_geo_pd)
              = Len(veg_df) + Cardinality(WeatherDates \ VegDates)

C5_Witness ==
    /\ InReadJson /\ pc = "returned"
    /\ \E j \in DOMAIN data_geo_pd :
          data_geo_pd[j].left # Null /\ data_geo_pd[j].right # Null
    /\ \E j \in DOMAIN data_geo_pd :
          data_geo_pd[j].left = Null /\ data_geo_pd[j].right # Null

\* C9: RuntimeError is raised exactly when a lookup finds more than one
\* row, and no lookup does: whatever record comes next, at most one
\* vegetation row has its (date, lat, long) and at most one weather row has
\* its date.
C9_AtMostOneMatch ==
    InReadJson =>
        /\ Len(matched_indices) <= 1
        /\ (error.kind = "RuntimeError") <=> (Len(matched_indices) > 1)
        /\ \A date \in Dates, lat \in Lats, long \in Longs :
              Len(VegMatched(veg_df, date, lat, long)) <= 1
        /\ \A date \in Dates : Len(WeatherMatched(weather_df, date)) <= 1

C9_Witness ==
    /\ InReadJson /\ pc = "weather"
    /\ Len(matched_indices) = 1
    /\ Len(veg_df) >= 1
    /\ Len(weather_df) = 1

----------------------------------------------------------------------------
(* variable_read_json_to_dataframe *)

\* The values of a time point (a JSON object) are sub-location objects,
\* records [date, latitude, longitude, offset50], or numbers, [float |-> x].
IsDict(v) == "float" \notin DOMAIN v

SubIds == {<<"0">>, <<"1">>, <<"0", "1">>}

\* Sub-location "0" lies at (0, 0) and has offset50 = 1, "1" lies at
\* (0, 1) and has offset50 = 2.
SpacePoint(date, id) ==
    [date |-> date, latitude |-> 0, longitude |-> IF id = "0" THEN 0 ELSE 1,
     offset50 |-> IF id = "0" THEN 1 ELSE 2]

\* A time point is null, or the list of the (key, value) items of an object:
\* no item, sub-location objects only, or the numbers of a weather date.
NullTimePoint == [null |-> TRUE, items |-> <<>>]
NestedTimePoints(date) ==
    {[null |-> FALSE,
      items |-> [k \in DOMAIN ids |-> <<ids[k], SpacePoint(date, ids[k])>>]] :
        ids \in SubIds}
FlatTimePoints ==
    {[null |-> FALSE, items |-> << <<m, [float |-> x]>> >>] :
        m \in Metrics, x \in Vals}
TimePoints(date) ==
    {NullTimePoint, [null |-> FALSE, items |-> <<>>]}
        \cup NestedTimePoints(date) \cup FlatTimePoints

\* Line 192: time_point is None or time_point == {}.
SkipOnlyNull(time_point) == time_point.null

Skip(time_point) == time_point.null \/ time_point.items = <<>>

\* Line 196: isinstance(list(time_point.values())[0], dict).
FirstIsDict(time_point) == IsDict(time_point.items[1][2])

\* Lines 197-199: the sub-location objects, in order.
SpacePoints(time_point) ==
    [k \in DOMAIN time_point.items |-> time_point.items[k][2]]

\* Lines 206-208: the time point itself with time_point['date'] = date.
WithDate(date, time_point) ==
    LET keys == {time_point.items[k][1] : k \in DOMAIN time_point.items}
        value(c) == (CHOOSE it \in Range(time_point.items) : it[1] = c)[2]
    IN  [c \in keys \cup {"date"} |->
            IF c = "date" THEN date ELSE value(c).float]

\* Line 212: pd.DataFrame(rows_list): one row per dict, one column per key
\* of any of them, NaN where a dict lacks the key.
DataFrame(rows) ==
    LET columns == UNION {DOMAIN rows[k] : k \in DOMAIN rows}
    IN  [k \in DOMAIN rows |->
            [c \in columns |->
                IF c \in DOMAIN rows[k] THEN Cell(rows[k][c]) ELSE Null]]

\* Line 213: dfs[collection_name] = df.
SetItem(d, key, value) ==
    [x \in DOMAIN d \cup {key} |-> IF x = key THEN value ELSE d[x]]

\* A call variable_read_json_to_dataframe(filename).
InitVarRead ==
    /\ call = "variable_read_json_to_dataframe"
    /\ pc = "vr_start"
    /\ error = NoError
    /\ filename = Join(RelativeDir, "results_summary.json")
    /\ file \in {"missing", "malformed", "json"}
    /\ json_file = "none"
    /\ IdleReadJson /\ IdleCoarse /\ IdleVarRead
    /\ IdleTimeSeries /\ IdleFigures /\ IdleMain /\ NothingWritten
    /\ IdleGeopandas

\* Lines 172-173: the file does not exist.
VRFileNotFound ==
    /\ pc = "vr_start"
    /\ file = "missing"
    /\ pc' = "raised"
    /\ error' = [kind |-> "FileNotFoundError", msg |-> <<>>]
    /\ UNCHANGED <<outerVars, call, coarseVars, fileVars, rjVars, vrVars>>

\* Lines 176-177: the file is opened and json.load raises.
VRLoadFails ==
    /\ pc = "vr_start"
    /\ file = "malformed"
    /\ json_file' = "open"
    /\ pc' = "raised"
    /\ error' = [kind |-> "JSONDecodeError", msg |-> <<>>]
    /\ UNCHANGED <<outerVars, call, coarseVars, filename, file, rjVars,
                   vrVars>>

\* Lines 176-186: the file is opened and read; dfs = {}; the first
\* collection starts with rows_list = [].
VRLoad ==
    /\ pc = "vr_start"
    /\ file = "json"
    /\ json_file' = "open"
    /\ pc' = "vr_loop"
    /\ ci' = 1
    /\ data' = [c \in DOMAIN Collections |-> <<>>]
    /\ rows_list' = <<>>
    /\ dfs' = <<>>
    /\ UNCHANGED <<outerVars, call, error, coarseVars, filename, file, veg_df,
                   weather_df, rj_i, used, matched_indices, data_geo_pd, nrec,
                   seen>>

\* Lines 189-208: one date of the time series of the collection.
VREntry ==
    /\ pc = "vr_loop"
    /\ ci \in DOMAIN Collections
    /\ nrec < MaxRecords
    /\ \E date \in Dates \ used :
        \E time_point \in TimePoints(date) :
            /\ used' = used \cup {date}
            /\ data' = [data EXCEPT ![ci] = Append(@, <<date, time_point>>)]
            /\ IF Skip(time_point)
               THEN UNCHANGED <<rows_list, pc, error>>
               ELSE IF time_point.items = <<>>
               THEN /\ pc' = "raised"
                    /\ error' = [kind |-> "IndexError", msg |-> <<>>]
                    /\ UNCHANGED rows_list
               ELSE IF FirstIsDict(time_point)
               THEN /\ rows_list' = rows_list \o SpacePoints(time_point)
                    /\ UNCHANGED <<pc, error>>
               ELSE /\ rows_list' = Append(rows_list,
                                           WithDate(date, time_point))
                    /\ UNCHANGED <<pc, error>>
    /\ nrec' = nrec + 1
    /\ UNCHANGED <<outerVars, call, coarseVars, fileVars, veg_df, weather_df,
                   rj_i, ci, matched_indices, data_geo_pd, seen, dfs>>

\* Lines 210-213, and 185-186 for the next collection.
VREndCollection ==
    /\ pc = "vr_loop"
    /\ ci \in DOMAIN Collections
    /\ dfs' = SetItem(dfs, Collections[ci].name, DataFrame(rows_list))
    /\ rows_list' = <<>>
    /\ used' = {}
    /\ ci' = ci + 1
    /\ UNCHANGED <<outerVars, call, pc, error, coarseVars, fileVars, veg_df,
                   weather_df, rj_i, matched_indices, data_geo_pd, nrec, seen,
                   data>>

\* Line 215.  The function never closes json_file: when it returns the
\* handle is open still, or was closed by the garbage collector when the
\* local name went out of scope.
VRReturn ==
    /\ pc = "vr_loop"
    /\ ci = Len(Collections) + 1
    /\ pc' = IF call = "main" THEN "main_read" ELSE "returned"
    /\ json_file' \in {"open", "closed"}
    /\ UNCHANGED <<outerVars, call, error, coarseVars, filename, file, rjVars,
                   vrVars>>

NextVarRead ==
    \/ VRFileNotFound \/ VRLoadFails \/ VRLoad
    \/ VREntry \/ VREndCollection \/ VRReturn

SpecVarRead == InitVarRead /\ [][NextVarRead]_vars

----------------------------------------------------------------------------
(* Properties of variable_read_json_to_dataframe *)

InVarRead == call = "variable_read_json_to_dataframe"

\* What the entries read for a collection should have produced: nothing
\* for a null or empty entry, its sub-location objects for an entry whose
\* values are objects, and otherwise its metrics with 'date' set to its
\* key.
RowsOf(entry) ==
    LET date == entry[1]
        time_point == entry[2]
    IN  IF time_point.null \/ time_point.items = <<>> THEN <<>>
        ELSE IF \A k \in DOMAIN time_point.items :
                    IsDict(time_point.items[k][2])
        THEN [k \in DOMAIN time_point.items |-> time_point.items[k][2]]
        ELSE << [c \in {time_point.items[k][1] :
                          k \in DOMAIN time_point.items} \cup {"date"} |->
                    IF c = "date" THEN date
                    ELSE (CHOOSE it \in Range(time_point.items) :
                             it[1] = c)[2].float] >>

RowCountOf(entry) ==
    LET time_point == entry[2]
    IN  IF time_point.null \/ time_point.items = <<>> THEN 0
        ELSE IF \A k \in DOMAIN time_point.items :
                    IsDict(time_point.items[k][2])
        THEN Len(time_point.items)
        ELSE 1

ExpectedRows(entries) == Flatten([k \in DOMAIN entries |-> RowsOf(entries[k])])
ExpectedCount(entries) ==
    SumOver(DOMAIN entries, [k \in DOMAIN entries |-> RowCountOf(entries[k])])

\* C4: variable_read_json_to_dataframe does not fail on a JSON file of the
\* schema, returns one table per collection (also when all the entries of
\* the collection are null or empty), and the rows of a table are, in the
\* order of the entries: none for a null or empty entry, one per
\* sub-location object of a nested entry, and one for any other entry, with
\* the entry's metrics and 'date' equal to its key.
C4_RowsPerEntry ==
    InVarRead =>
        /\ file = "json" => pc # "raised"
        /\ pc = "vr_loop" =>
              /\ ci \in DOMAIN Collections =>
                    /\ rows_list = ExpectedRows(data[ci])
                    /\ Len(rows_list) = ExpectedCount(data[ci])
              /\ DOMAIN dfs = {Collections[c].name : c \in 1..(ci - 1)}
              /\ \A c \in 1..(ci - 1) :
                    /\ dfs[Collections[c].name]
                          = DataFrame(ExpectedRows(data[c]))
                    /\ Len(dfs[Collections[c].name])
                          = ExpectedCount(data[c])
        /\ pc = "returned" =>
              /\ DOMAIN dfs = {Collections[c].name : c \in DOMAIN Collections}
              /\ \A c \in DOMAIN Collections :
                    /\ dfs[Collections[c].name]
                          = DataFrame(ExpectedRows(data[c]))
                    /\ Len(dfs[Collections[c].name])
                          = ExpectedCount(data[c])

C4_Witness ==
    /\ InVarRead /\ pc = "returned"
    /\ \E c \in DOMAIN Collections :
          data[c] # <<>> /\ Len(dfs[Collections[c].name]) = 0
    /\ \E c \in DOMAIN Collections : Len(dfs[Collections[c].name]) = 2
    /\ \E c \in DOMAIN Collections :
          /\ Len(dfs[Collections[c].name]) = 1
          /\ "precipitation" \in DOMAIN dfs[Collections[c].name][1]

----------------------------------------------------------------------------
(* make_time_series *)

\* A vegetation collection downloaded under a collection_name that is not
\* one of the configuration.
OtherVegetation == [name |-> "MODIS/006/MOD13Q1", type |-> "vegetation"]

\* The collections of the dict passed to make_time_series, in the order of
\* the dict: a vegetation collection of the configuration, another
\* vegetation collection, and a weather collection.
TimeSeriesCollections ==
    {<<veg, OtherVegetation, Collections[3]>> :
        veg \in {Collections[1], Collections[2]}}

\* Line 259, 'LANDSAT' in col_name: the names that contain 'LANDSAT'.
NamesWithLandsat == {"LANDSAT/LC08/C01/T1_SR"}

\* Line 259.
NamedVegetation(col_name) ==
    col_name = "COPERNICUS/S2" \/ col_name \in NamesWithLandsat

\* The dates in ascending order, the order of the keys of a groupby.
DateOrder == <<"2020-01-01", "2020-02-01">>

\* The rows of a vegetation table at one date: none, or sub-location "0"
\* with offset50 1 or 2, or sub-location "1" with offset50 3, or both.
TSPoint(date, id, v) ==
    [date |-> date, latitude |-> 0, longitude |-> IF id = "0" THEN 0 ELSE 1,
     offset50 |-> v]
PointsAt(date) ==
    {<<>>, <<TSPoint(date, "1", 3)>>}
        \cup {<<TSPoint(date, "0", v)>> : v \in Vals}
        \cup {<<TSPoint(date, "0", v), TSPoint(date, "1", 3)>> : v \in Vals}

\* The tables of a vegetation collection: the rows of the dates, in either
\* order of the dates.
VegetationTables ==
    {DataFrame(first \o second) :
        first \in PointsAt(DateOrder[1]), second \in PointsAt(DateOrder[2])}
    \cup
    {DataFrame(second \o first) :
        first \in PointsAt(DateOrder[1]), second \in PointsAt(DateOrder[2])}

\* The tables of a weather collection: one row for each date of a set.
WeatherTables ==
    {DataFrame(SelectSeq([k \in DOMAIN DateOrder |->
                             [date |-> DateOrder[k], precipitation |-> k]],
                         LAMBDA row : row.date \in ds)) :
        ds \in SUBSET Dates}

ColumnsOf(df) == IF df = <<>> THEN {} ELSE DOMAIN df[1]

\* The non-null values of a column of some rows.
ValuesOf(rows, c) ==
    LET present == SelectSeq(rows, LAMBDA row : row[c] # Null)
    IN  [k \in DOMAIN present |-> present[k][c][1]]

RECURSIVE SumSeq(_)
SumSeq(s) == IF s = <<>> THEN 0 ELSE Head(s) + SumSeq(Tail(s))

Squares(s) == [k \in DOMAIN s |-> s[k] * s[k]]

\* Line 265, the mean of a group: the fraction num / den.
Mean(s) ==
    IF s = <<>> THEN Null ELSE Cell([num |-> SumSeq(s), den |-> Len(s)])

\* Line 266, the sample standard deviation of a group (ddof = 1): the
\* square root of the fraction num / den, NaN for fewer than two values.
Std(s) ==
    IF Len(s) < 2 THEN Null
    ELSE Cell([sqrt_num |-> Len(s) * SumSeq(Squares(s))
                               - SumSeq(s) * SumSeq(s),
               sqrt_den |-> Len(s) * (Len(s) - 1)])

\* Line 262: the keys of df.groupby('date'), in ascending order.
GroupKeys(df) ==
    SelectSeq(DateOrder,
              LAMBDA d : \E k \in DOMAIN df : df[k]["date"] = Cell(d))

Group(df, d) == SelectSeq(df, LAMBDA row : row["date"] = Cell(d))

\* Lines 262-273: the means of the columns of each group, and the std of
\* offset50 as offset50_std, joined on date.
Aggregate(df) ==
    LET keys == GroupKeys(df)
    IN  [k \in DOMAIN keys |->
            LET group == Group(df, keys[k])
            IN  [c \in ColumnsOf(df) \cup {"offset50_std"} |->
                    IF c = "date" THEN Cell(keys[k])
                    ELSE IF c = "offset50_std"
                    THEN Std(ValuesOf(group, "offset50"))
                    ELSE Mean(ValuesOf(group, c))]]

\* A call make_time_series(dfs).
InitTimeSeries ==
    /\ call = "make_time_series"
    /\ pc = "ts_loop"
    /\ error = NoError
    /\ \E cs \in TimeSeriesCollections :
        \E t1 \in VegetationTables, t2 \in VegetationTables,
           t3 \in WeatherTables :
            /\ dfs_in = <<[name |-> cs[1].name, type |-> cs[1].type,
                           df |-> t1],
                          [name |-> cs[2].name, type |-> cs[2].type,
                           df |-> t2],
                          [name |-> cs[3].name, type |-> cs[3].type,
                           df |-> t3]>>
            /\ dfs = [x \in {cs[k].name : k \in 1..3} |->
                         IF x = cs[1].name THEN t1
                         ELSE IF x = cs[2].name THEN t2 ELSE t3]
    /\ ci = 1
    /\ IdleFile /\ IdleCoarse /\ IdleFigures /\ IdleMain /\ NothingWritten
    /\ IdleGeopandas
    /\ veg_df = <<>> /\ weather_df = <<>> /\ rj_i = 0 /\ used = {}
    /\ matched_indices = {} /\ data_geo_pd = <<>> /\ nrec = 0 /\ seen = {}
    /\ data = <<>> /\ rows_list = <<>>

\* Lines 259-274: the table of a collection that the name test takes for
\* vegetation is replaced by its aggregate.
TSAggregate ==
    /\ pc = "ts_loop"
    /\ ci \in DOMAIN dfs_in
    /\ NamedVegetation(dfs_in[ci].name)
    /\ {"date", "offset50"} \subseteq ColumnsOf(dfs[dfs_in[ci].name])
    /\ dfs' = SetItem(dfs, dfs_in[ci].name, Aggregate(dfs[dfs_in[ci].name]))
    /\ ci' = ci + 1
    /\ UNCHANGED <<call, pc, error, coarseVars, fileVars, veg_df, weather_df,
                   rj_i, used, matched_indices, data_geo_pd, nrec, seen, data,
                   rows_list, outerVars>>

\* Lines 262 and 272: a table without the column 'date' has no such key to
\* group by, one without 'offset50' has no column 'offset50_std'.
TSKeyError ==
    /\ pc = "ts_loop"
    /\ ci \in DOMAIN dfs_in
    /\ NamedVegetation(dfs_in[ci].name)
    /\ ~ ({"date", "offset50"} \subseteq ColumnsOf(dfs[dfs_in[ci].name]))
    /\ pc' = "raised"
    /\ error' = [kind |-> "KeyError", msg |-> <<>>]
    /\ UNCHANGED <<call, coarseVars, fileVars, rjVars, vrVars, outerVars>>

\* Line 259: any other collection is left as it is.
TSLeave ==
    /\ pc = "ts_loop"
    /\ ci \in DOMAIN dfs_in
    /\ ~ NamedVegetation(dfs_in[ci].name)
    /\ ci' = ci + 1
    /\ UNCHANGED <<call, pc, error, coarseVars, fileVars, veg_df, weather_df,
                   rj_i, used, matched_indices, data_geo_pd, nrec, seen,
                   vrVars, outerVars>>

\* Line 276.
TSReturn ==
    /\ pc = "ts_loop"
    /\ ci = Len(dfs_in) + 1
    /\ pc' = IF call = "main" THEN "main_time_series" ELSE "returned"
    /\ UNCHANGED <<call, error, coarseVars, fileVars, rjVars, vrVars,
                   outerVars>>

NextTimeSeries == TSAggregate \/ TSKeyError \/ TSLeave \/ TSReturn

SpecTimeSeries == InitTimeSeries /\ [][NextTimeSeries]_vars

----------------------------------------------------------------------------
(* Properties of make_time_series *)

InTimeSeries == call = "make_time_series"

DatesIn(df) == {df[k]["date"][1] : k \in DOMAIN df}

\* The offset50 values of the rows of a date.
Offsets(df, d) == ValuesOf(Group(df, d), "offset50")

\* out has one row per distinct date of df, and each has a column
\* offset50_std.
OneRowPerDate(out, df) ==
    /\ Len(out) = Cardinality(DatesIn(df))
    /\ \A k \in DOMAIN out : "offset50_std" \in DOMAIN out[k]
    /\ \A d \in DatesIn(df) :
          Cardinality({k \in DOMAIN out : out[k]["date"] = Cell(d)}) = 1

\* The row of date d has the mean m of the k values vs of the date,
\* k * m = v1 + ... + vk, and their sample standard deviation s,
\* s * s * k * (k - 1) = k * (v1^2 + ... + vk^2) - (v1 + ... + vk)^2, null
\* when k = 1.
MeanAndStd(row, vs) ==
    /\ row["offset50"] # Null
    /\ Len(vs) * row["offset50"][1].num = SumSeq(vs) * row["offset50"][1].den
    /\ Len(vs) = 1 => row["offset50_std"] = Null
    /\ Len(vs) > 1 =>
          /\ row["offset50_std"] # Null
          /\ row["offset50_std"][1].sqrt_num * Len(vs) * (Len(vs) - 1)
                = (Len(vs) * SumSeq(Squares(vs)) - SumSeq(vs) * SumSeq(vs))
                     * row["offset50_std"][1].sqrt_den

TimeSeriesOf(out, df) ==
    /\ OneRowPerDate(out, df)
    /\ \A k \in DOMAIN out : MeanAndStd(out[k], Offsets(df, out[k]["date"][1]))

\* What make_time_series does for the collections that line 259 takes for
\* vegetation: when it returns, the table of each is its time series, and
\* the table of every other collection is the one passed in.
TimeSeriesByName ==
    (InTimeSeries /\ pc = "returned") =>
        \A k \in DOMAIN dfs_in :
            IF NamedVegetation(dfs_in[k].name)
            THEN TimeSeriesOf(dfs[dfs_in[k].name], dfs_in[k].df)
            ELSE dfs[dfs_in[k].name] = dfs_in[k].df

\* C6: when make_time_series returns, the table of every vegetation
\* collection has exactly one row per distinct date of the table passed in;
\* for a date with k rows of values v1..vk the row's offset50 is their mean
\* (k * mean = v1 + ... + vk) and its offset50_std is their sample standard
\* deviation, null when k = 1.
C6_MeanAndStdPerDate ==
    (InTimeSeries /\ pc = "returned") =>
        \A k \in DOMAIN dfs_in :
            dfs_in[k].type = "vegetation" =>
                TimeSeriesOf(dfs[dfs_in[k].name], dfs_in[k].df)

\* C7: when make_time_series returns, the table of a collection is
\* aggregated (one row per date, with a column offset50_std) if and only
\* if the collection is of vegetation kind, whatever its name is; the
\* table of a collection of another kind is the one passed in.
C7_AggregatedIffVegetation ==
    (InTimeSeries /\ pc = "returned") =>
        \A k \in DOMAIN dfs_in :
            /\ dfs_in[k].type = "vegetation" =>
                  \/ dfs_in[k].df = <<>>
                  \/ OneRowPerDate(dfs[dfs_in[k].name], dfs_in[k].df)
            /\ dfs_in[k].type # "vegetation" =>
                  dfs[dfs_in[k].name] = dfs_in[k].df

\* The call returns with the table of a vegetation collection of two rows
\* at one date, and with the table of a weather collection.
TimeSeriesReturned ==
    /\ InTimeSeries /\ pc = "returned"
    /\ \E k \in DOMAIN dfs_in :
          /\ NamedVegetation(dfs_in[k].name)
          /\ \E d \in Dates : Len(Offsets(dfs_in[k].df, d)) = 2
    /\ \E k \in DOMAIN dfs_in :
          dfs_in[k].type = "precipitation" /\ dfs_in[k].df # <<>>

----------------------------------------------------------------------------
(* create_lat_long_metric_figures *)

\* The dates of a table to plot, in ascending order.
FigureDates == <<"2020-01-01", "2020-02-01", "2020-03-01">>

\* Line 327, pd.to_datetime(str(date)): the date of a string.
ToDatetime(date) ==
    CASE date = "2020-01-01" -> [year |-> 2020, month |-> 1, day |-> 1]
      [] date = "2020-02-01" -> [year |-> 2020, month |-> 2, day |-> 1]
      [] date = "2020-03-01" -> [year |-> 2020, month |-> 3, day |-> 1]

TwoDigits(k) == IF k < 10 THEN "0" \o ToString(k) ELSE ToString(k)

\* Line 327, strftime('%Y-%m-%d').
Strftime(t) ==
    ToString(t.year) \o "-" \o TwoDigits(t.month) \o "-" \o TwoDigits(t.day)

\* Line 342, metric.replace("/", "_").
MetricOutputName(name) ==
    IF name = "offset50/mean" THEN "offset50_mean" ELSE name

FigureMetrics == {"offset50", "offset50/mean"}

\* The values of the metric in the rows of one date: no row, values only,
\* or values and nulls.
CellsAt ==
    {<<>>, <<Cell(1)>>, <<Cell(1), Cell(2)>>, <<Null>>, <<Cell(1), Null>>}

\* The names the column of the dates has in the tables passed.
DateColumns == {"date", "time"}

\* The tables passed: the rows of each date, with the dates in the column
\* dates and the values in the column column.
FigureTables(dates, column) ==
    {Flatten([k \in DOMAIN FigureDates |->
                [j \in DOMAIN cells[k] |->
                    [c \in {dates, column} |->
                        IF c = dates THEN Cell(FigureDates[k])
                        ELSE cells[k][j]]]]) :
        cells \in [DOMAIN FigureDates -> CellsAt]}

\* Line 295: set(['date', metric]).issubset(data_df.columns).
ColumnsPresentDateOnly(df, column) == "date" \in ColumnsOf(df)

ColumnsPresent(df, column) == {"date", column} \subseteq ColumnsOf(df)

\* Line 310, np.unique(data_df['date']): the dates, ascending, once each.
UniqueDates(df) ==
    SelectSeq(FigureDates,
              LAMBDA d : \E k \in DOMAIN df : df[k]["date"] = Cell(d))

\* Line 317: data_df[data_df['date'] == date][metric].isnull().values.any().
AnyNull(df, date, column) ==
    \E k \in DOMAIN df : df[k]["date"] = Cell(date) /\ df[k][column] = Null

\* Line 345.
FigurePath(dir, name, date) ==
    Join(dir, MetricOutputName(name) \o "_network_2D_grid_" \o date \o ".png")

\* A call create_lat_long_metric_figures(data_df, metric, output_dir).
InitFigures ==
    /\ call = "create_lat_long_metric_figures"
    /\ pc = "fig_start"
    /\ error = NoError
    /\ metric \in FigureMetrics
    /\ \E dates \in DateColumns, column \in FigureMetrics :
          fig_df \in FigureTables(dates, column)
    /\ output_dir \in Paths
    /\ dirs \in {{}, {output_dir}}
    /\ files = {}
    /\ list_of_dates = <<>> /\ date_pos = 0 /\ date_str = Null
    /\ printed = <<>>
    /\ IdleFile /\ IdleCoarse /\ IdleReadJson /\ IdleVarRead
    /\ IdleTimeSeries /\ IdleMain /\ IdleGeopandas

\* Lines 295, 346-347: a column is missing.
FigColumnsMissing ==
    /\ pc = "fig_start"
    /\ ~ ColumnsPresent(fig_df, metric)
    /\ pc' = "raised"
    /\ error' = [kind |-> "RuntimeError",
                 msg |->
                   <<"Expected variables not present in input dataframe">>]
    /\ UNCHANGED <<call, coarseVars, fileVars, rjVars, vrVars, outerVars>>

\* Lines 295-310: the range of the colours and the dates to plot.
FigStart ==
    /\ pc = "fig_start"
    /\ ColumnsPresent(fig_df, metric)
    /\ list_of_dates' = UniqueDates(fig_df)
    /\ pc' = "fig_loop"
    /\ UNCHANGED <<call, error, coarseVars, fileVars, rjVars, vrVars, tsVars,
                   fig_df, metric, output_dir, date_pos, date_str, printed,
                   fsVars, mainVars, geoVars>>

InFigureLoop ==
    /\ pc = "fig_loop"
    /\ date_pos < Len(list_of_dates)

\* Lines 317-319: a date with a null, after a date that was plotted: the
\* warning names date_str, the date plotted last.
FigSkipDate ==
    /\ InFigureLoop
    /\ AnyNull(fig_df, list_of_dates[date_pos + 1], metric)
    /\ date_str # Null
    /\ printed' = Append(printed, <<"Problem with date ", date_str[1],
                                    " nan entries found.">>)
    /\ date_pos' = date_pos + 1
    /\ UNCHANGED <<call, pc, error, coarseVars, fileVars, rjVars, vrVars,
                   tsVars, fig_df, metric, output_dir, list_of_dates,
                   date_str, fsVars, mainVars, geoVars>>

\* Lines 317-318: a date with a null, before any date was plotted:
\* date_str is read before it is assigned.
FigUnboundDateStr ==
    /\ InFigureLoop
    /\ AnyNull(fig_df, list_of_dates[date_pos + 1], metric)
    /\ date_str = Null
    /\ pc' = "raised"
    /\ error' = [kind |-> "UnboundLocalError", msg |-> <<"date_str">>]
    /\ UNCHANGED <<call, coarseVars, fileVars, rjVars, vrVars, outerVars>>

\* Lines 322-345: the figure of a date without nulls is saved, in
\* output_dir, which is created when it does not exist.
FigSave ==
    /\ InFigureLoop
    /\ ~ AnyNull(fig_df, list_of_dates[date_pos + 1], metric)
    /\ date_str' = Cell(Strftime(ToDatetime(list_of_dates[date_pos + 1])))
    /\ dirs' = dirs \cup {output_dir}
    /\ files' = files \cup {FigurePath(output_dir, metric, date_str'[1])}
    /\ date_pos' = date_pos + 1
    /\ UNCHANGED <<call, pc, error, coarseVars, fileVars, rjVars, vrVars,
                   tsVars, fig_df, metric, output_dir, list_of_dates, printed,
                   mainVars, geoVars>>

\* The loop ends.
FigReturn ==
    /\ pc = "fig_loop"
    /\ date_pos = Len(list_of_dates)
    /\ pc' = IF call = "main" THEN "main_figures" ELSE "returned"
    /\ UNCHANGED <<call, error, coarseVars, fileVars, rjVars, vrVars,
                   outerVars>>

NextFigures ==
    \/ FigColumnsMissing \/ FigStart \/ FigSkipDate \/ FigUnboundDateStr
    \/ FigSave \/ FigReturn

SpecFigures == InitFigures /\ [][NextFigures]_vars

----------------------------------------------------------------------------
(* Properties of create_lat_long_metric_figures *)

InFigures == call = "create_lat_long_metric_figures"

HasColumns == {"date", metric} \subseteq ColumnsOf(fig_df)

DatesWithNull ==
    {FigureDates[k] : k \in {j \in DOMAIN FigureDates :
        AnyNull(fig_df, FigureDates[j], metric)}}

DatesWithoutNull ==
    {FigureDates[k] : k \in {j \in DOMAIN FigureDates :
        /\ \E i \in DOMAIN fig_df : fig_df[i]["date"] = Cell(FigureDates[j])
        /\ ~ AnyNull(fig_df, FigureDates[j], metric)}}

\* C8: a call create_lat_long_metric_figures on a table with the columns
\* 'date' and the metric never aborts, wherever the dates with a null
\* value of the metric are in the order of the dates; when it returns, it
\* has printed one warning for each date with a null and saved one figure
\* for each date without.
C8_NullDateSkipped ==
    (InFigures /\ HasColumns) =>
        /\ pc # "raised"
        /\ pc = "returned" =>
              /\ Len(printed) = Cardinality(DatesWithNull)
              /\ files = {FigurePath(output_dir, metric, d) :
                             d \in DatesWithoutNull}

\* What the code does: the call aborts exactly when a date with a null
\* comes before every date without, and otherwise returns with the figures
\* of the dates without nulls and a warning for each date with one.
FiguresUnlessFirstDateNull ==
    (InFigures /\ HasColumns) =>
        /\ pc = "raised" =>
              /\ error.kind = "UnboundLocalError"
              /\ files = {}
              /\ AnyNull(fig_df, list_of_dates[1], metric)
        /\ pc = "returned" =>
              /\ Len(printed) = Cardinality(DatesWithNull)
              /\ files = {FigurePath(output_dir, metric, d) :
                             d \in DatesWithoutNull}
              /\ files # {} => output_dir \in dirs

\* A warning names the date plotted last, never the date it skips.
WarningNamesAnotherDate ==
    InFigures =>
        \A k \in DOMAIN printed :
            /\ printed[k][2] \notin DatesWithNull
            /\ printed[k][2] \in DatesWithoutNull

----------------------------------------------------------------------------
(* convert_to_geopandas *)

MaxGeoRows == 2
MaxCalls == 2

\* The names of the coordinate columns of the tables passed: those that
\* read_json_to_dataframe gives them, and those of the sub-location objects
\* that variable_read_json_to_dataframe copies.
CoordinateNames == {<<"lat", "long">>, <<"latitude", "longitude">>}

GeoRow(names, date, x, y) ==
    [c \in {"date", names[1], names[2]} |->
        IF c = "date" THEN Cell(date)
        ELSE IF c = names[1] THEN Cell(x) ELSE Cell(y)]

GeoRows(names) ==
    {GeoRow(names, date, x, y) : date \in Dates, x \in Lats, y \in Longs}

\* A geometry column a table may have before the call.
WithStaleGeometry(t) ==
    [k \in DOMAIN t |->
        [c \in DOMAIN t[k] \cup {"geometry"} |->
            IF c = "geometry" THEN Cell(<<0, 0>>) ELSE t[k][c]]]

GeoTables ==
    LET plain == UNION {SeqsUpTo(GeoRows(names), MaxGeoRows) :
                           names \in CoordinateNames}
    IN  plain \cup {WithStaleGeometry(t) : t \in plain}

\* Line 231, df.lat and df.long: the table has these attributes.
HasLatLong(t) == {"lat", "long"} \subseteq ColumnsOf(t)

\* Line 231: df['geometry'] = [Point(xy) for xy in zip(df.lat, df.long)].
SetGeometry(t) ==
    [k \in DOMAIN t |->
        [c \in DOMAIN t[k] \cup {"geometry"} |->
            IF c = "geometry" THEN Cell(<<t[k]["lat"][1], t[k]["long"][1]>>)
            ELSE t[k][c]]]

\* A call convert_to_geopandas(df) on a table of the caller.
InitGeopandas ==
    /\ call = "convert_to_geopandas"
    /\ pc = "geo_start"
    /\ error = NoError
    /\ geo_df \in GeoTables
    /\ geo_in = geo_df
    /\ geo_arg = "table"
    /\ geo_ret = "unset"
    /\ geo_calls = 0
    /\ IdleFile /\ IdleCoarse /\ IdleReadJson /\ IdleVarRead
    /\ IdleTimeSeries /\ IdleFigures /\ IdleMain /\ NothingWritten

\* Lines 231-233: the geometry column is set in the table passed, the
\* local name df is bound to a GeoDataFrame of it, and the function ends
\* without a return statement: the call evaluates to None.
GeoConvert ==
    /\ pc = "geo_start"
    /\ geo_arg = "table"
    /\ HasLatLong(geo_df)
    /\ geo_df' = SetGeometry(geo_df)
    /\ geo_ret' = "None"
    /\ geo_calls' = geo_calls + 1
    /\ pc' = IF call = "main" THEN "main_geo" ELSE "returned"
    /\ UNCHANGED <<call, error, coarseVars, fileVars, rjVars, vrVars, tsVars,
                   figVars, fsVars, mainVars, geo_arg, geo_in>>

\* Line 231: None, or a table without a column lat or long, has no such
\* attribute.
GeoAttributeError ==
    /\ pc = "geo_start"
    /\ geo_arg = "None" \/ ~ HasLatLong(geo_df)
    /\ geo_calls' = geo_calls + 1
    /\ pc' = "raised"
    /\ error' = [kind |-> "AttributeError", msg |-> <<>>]
    /\ UNCHANGED <<call, coarseVars, fileVars, rjVars, vrVars, tsVars,
                   figVars, fsVars, mainVars, geo_df, geo_arg, geo_ret,
                   geo_in>>

\* The caller applies convert_to_geopandas to what the call returned.
GeoAgain ==
    /\ call = "convert_to_geopandas"
    /\ pc = "returned"
    /\ geo_calls < MaxCalls
    /\ geo_arg' = geo_ret
    /\ pc' = "geo_start"
    /\ UNCHANGED <<call, error, coarseVars, fileVars, rjVars, vrVars, tsVars,
                   figVars, fsVars, mainVars, geo_df, geo_ret, geo_in,
                   geo_calls>>

NextGeopandas == GeoConvert \/ GeoAttributeError \/ GeoAgain

SpecGeopandas == InitGeopandas /\ [][NextGeopandas]_vars

----------------------------------------------------------------------------
(* Properties of convert_to_geopandas *)

InGeopandas == call = "convert_to_geopandas"

HasCoordinates(t) ==
    \E names \in CoordinateNames : {names[1], names[2]} \subseteq ColumnsOf(t)

\* The table t with a geometry column of the points of the rows of t.
Augmented(t) ==
    LET names == CHOOSE nm \in CoordinateNames :
                     {nm[1], nm[2]} \subseteq ColumnsOf(t)
    IN  [k \in DOMAIN t |->
            [c \in DOMAIN t[k] \cup {"geometry"} |->
                IF c = "geometry"
                THEN Cell(<<t[k][names[1]][1], t[k][names[2]][1]>>)
                ELSE t[k][c]]]

\* C11: a call of convert_to_geopandas on a table with coordinate columns
\* does not fail and returns that table, with the same rows and a geometry
\* column of the points of their coordinates; so does the call on its
\* result, which returns an equal table.
C11_ReturnsTableWithGeometry ==
    (InGeopandas /\ HasCoordinates(geo_in)) =>
        /\ pc # "raised"
        /\ pc = "returned" =>
              /\ geo_ret = "table"
              /\ geo_df = Augmented(geo_in)

\* What the code does for a table with the columns lat and long: the first
\* call sets the geometry column in the caller's table and returns None,
\* and the call on that result fails.
GeometrySetInPlace ==
    (InGeopandas /\ HasLatLong(geo_in)) =>
        /\ pc = "returned" =>
              /\ geo_calls = 1
              /\ geo_ret = "None"
              /\ geo_df = Augmented(geo_in)
        /\ pc = "raised" =>
              /\ geo_calls = 2
              /\ geo_arg = "None"
              /\ error.kind = "AttributeError"

\* A table with the columns latitude and longitude makes the call fail.
LatitudeLongitudeRejected ==
    (InGeopandas /\ ~ HasLatLong(geo_in) /\ pc # "geo_start") =>
        /\ pc = "raised"
        /\ error.kind = "AttributeError"
        /\ geo_df = geo_in

----------------------------------------------------------------------------
(* main of analyse_gee_data *)

RECURSIVE Joined(_)
Joined(parts) ==
    IF Len(parts) = 1 THEN parts[1]
    ELSE parts[1] \o "/" \o Joined(Tail(parts))

\* The string of a path.
PathStr(p) == (IF p.abs THEN "/" ELSE "") \o Joined(p.parts)

\* Line 56.
OutputDir == Join(input_dir, "analysis")

\* Line 59.
JsonSummaryPath == Join(input_dir, "results_summary.json")

\* Line 61: the message of the error.
CouldNotFindFile(path) ==
    <<"Could not find file \"", PathStr(AbsPath(path)), "\".">>

\* A run of main --input_dir <input_dir>, with or without --spatial_plot;
\* the output directory may exist already.
InitMain ==
    /\ call = "main"
    /\ pc = "main_start"
    /\ error = NoError
    /\ input_dir \in Paths
    /\ spatial_plot \in BOOLEAN
    /\ stages = <<>>
    /\ filename = Null
    /\ file \in {"missing", "malformed", "json"}
    /\ json_file = "none"
    /\ dirs \in {{}, {OutputDir}}
    /\ files = {}
    /\ IdleCoarse /\ IdleReadJson /\ IdleVarRead /\ IdleTimeSeries
    /\ IdleFigures /\ IdleGeopandas

\* Lines 59-61: the input file does not exist.
MainFileNotFound ==
    /\ pc = "main_start"
    /\ file = "missing"
    /\ filename' = JsonSummaryPath
    /\ pc' = "raised"
    /\ error' = [kind |-> "FileNotFoundError",
                 msg |-> CouldNotFindFile(JsonSummaryPath)]
    /\ UNCHANGED <<call, coarseVars, file, json_file, rjVars, vrVars,
                   outerVars>>

\* Lines 59-69: the input file exists; the output directory is made and
\* variable_read_json_to_dataframe is called.
MainMakeDirs ==
    /\ pc = "main_start"
    /\ file # "missing"
    /\ filename' = JsonSummaryPath
    /\ dirs' = dirs \cup {OutputDir}
    /\ stages' = Append(stages, "ingestion")
    /\ pc' = "vr_start"
    /\ UNCHANGED <<call, error, coarseVars, file, json_file, rjVars, vrVars,
                   tsVars, figVars, files, input_dir, spatial_plot, geoVars>>

\* Line 81.
SpatialSubdir == Join(OutputDir, "spatial")

\* Lines 85-86: the collections of dfs, in order, that the name test takes
\* for vegetation.
NamedVegetationIn(d) ==
    SelectSeq(Collections,
              LAMBDA c : c.name \in DOMAIN d /\ NamedVegetation(c.name))

\* Lines 75-87: with --spatial_plot the directory of the figures is made
\* and convert_to_geopandas is called on the table of the first collection
\* that the name test takes for vegetation.
MainSpatial ==
    /\ pc = "main_read"
    /\ spatial_plot
    /\ dirs' = dirs \cup {SpatialSubdir}
    /\ IF NamedVegetationIn(dfs) # <<>>
       THEN /\ geo_df' = dfs[NamedVegetationIn(dfs)[1].name]
            /\ geo_in' = geo_df'
            /\ geo_arg' = "table"
            /\ stages' = Append(stages, "geospatial")
            /\ pc' = "geo_start"
       ELSE /\ pc' = "main_spatial_done"
            /\ UNCHANGED <<geo_df, geo_in, geo_arg, stages>>
    /\ UNCHANGED <<call, error, coarseVars, fileVars, rjVars, vrVars, tsVars,
                   figVars, files, input_dir, spatial_plot, geo_ret,
                   geo_calls>>

\* Line 104, make_time_series(dfs.copy()), raises for the dict d.
TimeSeriesRaises(d) ==
    \E name \in DOMAIN d :
        /\ NamedVegetation(name)
        /\ ~ ({"date", "offset50"} \subseteq ColumnsOf(d[name]))

\* Lines 94-104: the time series path, which every run takes
\* (--time_series_plot is True by default and cannot be switched off):
\* make_time_series is called on a copy of dfs.
MainTimeSeries ==
    /\ \/ pc = "main_read" /\ ~ spatial_plot
       \/ pc = "main_spatial_done"
    /\ stages' = Append(stages, "aggregation")
    /\ IF TimeSeriesRaises(dfs)
       THEN /\ pc' = "raised"
            /\ error' = [kind |-> "KeyError", msg |-> <<>>]
       ELSE /\ pc' = "main_aggregated"
            /\ UNCHANGED error
    /\ UNCHANGED <<call, coarseVars, fileVars, rjVars, vrVars, tsVars,
                   figVars, fsVars, input_dir, spatial_plot, geoVars>>

\* Lines 111-114: drop_veg_outliers(dfs, sigmas=3), then the plot of the
\* feature vectors.  With the few values per series of the bounds no value
\* lies three standard deviations from the mean, and dfs is as before.
MainDropOutliers ==
    /\ pc = "main_aggregated"
    /\ stages' = Append(stages, "outliers")
    /\ pc' = "main_filtered"
    /\ UNCHANGED <<call, error, coarseVars, fileVars, rjVars, vrVars, tsVars,
                   figVars, fsVars, input_dir, spatial_plot, geoVars>>

\* Line 117: make_time_series(smooth_veg_data(dfs.copy(), n=5)).
MainSmooth ==
    /\ pc = "main_filtered"
    /\ stages' = stages \o <<"smoothing", "aggregation">>
    /\ pc' = "main_smoothed"
    /\ UNCHANGED <<call, error, coarseVars, fileVars, rjVars, vrVars, tsVars,
                   figVars, fsVars, input_dir, spatial_plot, geoVars>>

\* Lines 120-129: the plots of the smoothed series, then
\* write_slimmed_csv.
MainExport ==
    /\ pc = "main_smoothed"
    /\ stages' = Append(stages, "export")
    /\ pc' = "main_done"
    /\ UNCHANGED <<call, error, coarseVars, fileVars, rjVars, vrVars, tsVars,
                   figVars, fsVars, input_dir, spatial_plot, geoVars>>

\* convert_to_geopandas is called on tables of
\* variable_read_json_to_dataframe only, which have no column lat:
\* GeoConvert is never enabled in a run of main, and lines 88-89 are not
\* reached.
NextMain ==
    \/ MainFileNotFound \/ MainMakeDirs \/ NextVarRead
    \/ MainSpatial \/ GeoAttributeError
    \/ MainTimeSeries \/ MainDropOutliers \/ MainSmooth \/ MainExport

SpecMain == InitMain /\ [][NextMain]_vars

\* The three entry points that read the input file.
InitEntryPoints == InitMain \/ InitReadJson \/ InitVarRead

NextEntryPoints == NextMain \/ NextReadJson

SpecEntryPoints == InitEntryPoints /\ [][NextEntryPoints]_vars

----------------------------------------------------------------------------
(* Properties of the entry points *)

EntryPoints ==
    {"main", "read_json_to_dataframe", "variable_read_json_to_dataframe"}

NothingBuilt ==
    /\ veg_df = <<>> /\ weather_df = <<>> /\ data_geo_pd = <<>>
    /\ rows_list = <<>> /\ dfs = <<>> /\ data = <<>>
    /\ json_file = "none"
    /\ files = {}

\* The path the entry point was given for the input file.
InputPath == IF call = "main" THEN JsonSummaryPath ELSE filename

\* C10: when the input file does not exist, each entry point fails with a
\* FileNotFoundError before any processing: nothing is read or built, no
\* output directory is created, there is no second attempt, and the
\* message of the error includes the absolute path of the missing file.
C10_MissingFileNamesPath ==
    /\ [] ((call \in EntryPoints /\ file = "missing") =>
              /\ pc \in {"main_start", "start", "vr_start", "raised"}
              /\ NothingBuilt
              /\ pc = "raised" =>
                    /\ error.kind = "FileNotFoundError"
                    /\ PathStr(AbsPath(InputPath)) \in Range(error.msg))
    /\ [][(call \in EntryPoints /\ file = "missing") =>
              /\ dirs' = dirs
              /\ pc' = "raised"]_vars

\* What the code does: as C10, but only main's message names the path; the
\* two functions raise the error without a message.
MissingFileFailsFirst ==
    /\ [] ((call \in EntryPoints /\ file = "missing") =>
              /\ pc \in {"main_start", "start", "vr_start", "raised"}
              /\ NothingBuilt
              /\ pc = "raised" =>
                    /\ error.kind = "FileNotFoundError"
                    /\ error.msg = IF call = "main"
                                   THEN CouldNotFindFile(InputPath)
                                   ELSE <<>>)
    /\ [][(call \in EntryPoints /\ file = "missing") =>
              /\ dirs' = dirs
              /\ pc' = "raised"]_vars

\* main has failed for a missing file in a relative directory.
MainMissingFile ==
    /\ call = "main" /\ pc = "raised" /\ file = "missing"
    /\ ~ input_dir.abs

----------------------------------------------------------------------------
(* Properties of create_lat_long_metric_figures: the missing columns *)

RuntimeErrorRaised == pc = "raised" /\ error.kind = "RuntimeError"

\* C12: create_lat_long_metric_figures on a table without the column
\* 'date' or without the column of the metric raises RuntimeError as its
\* only step: no date is looked at, no file and no directory is created.
\* On a table with both columns it never raises RuntimeError.
C12_MissingColumnRaisesFirst ==
    /\ [] (InFigures =>
              /\ ~ HasColumns =>
                    /\ pc \in {"fig_start", "raised"}
                    /\ pc = "fig_start" => ENABLED FigColumnsMissing
                    /\ pc = "raised" => RuntimeErrorRaised
                    /\ list_of_dates = <<>> /\ date_pos = 0
                    /\ files = {} /\ printed = <<>>
              /\ HasColumns => ~ RuntimeErrorRaised)
    /\ [][(InFigures /\ ~ HasColumns) =>
              /\ RuntimeErrorRaised'
              /\ dirs' = dirs /\ files' = files]_vars

\* The call has raised RuntimeError for a table that has the column of the
\* metric and rows, but no column 'date'.
C12_Witness ==
    /\ InFigures /\ RuntimeErrorRaised
    /\ metric \in ColumnsOf(fig_df)
    /\ "date" \notin ColumnsOf(fig_df)
    /\ dirs = {}

----------------------------------------------------------------------------
(* Properties of coarse_dataframe: the candidates of an iteration *)

\* The sorted triples of the rows of df that have no category, as seen
\* from row k.
UnassignedCandidates(df, k) ==
    SelectSeq(SortByDist(Distances(df, k)),
              LAMBDA t : df[t[1]].category = Unassigned)

\* The table after an iteration on row k whose candidates are the rows
\* without a category.
LabelledAmongUnassigned(df, k, b, c) ==
    LET candidates == UnassignedCandidates(df, k)
    IN  Assign(df, Indexes(candidates, MaxDist(candidates, b)), Str(c))

\* C13: an iteration of the greedy pass of coarse_dataframe takes its
\* candidates, and the distances of max_dist, from the rows without a
\* category only, and it leaves the label of every row that has one as it
\* is.
C13_AssignedRowsKeepLabel ==
    [][(call = "coarse_dataframe" /\ pc = "loop" /\ n' = n + 1) =>
          /\ \A i \in DOMAIN data_df :
                data_df[i].category # Unassigned =>
                    data_df'[i].category = data_df[i].category
          /\ category' = category + 1 =>
                data_df' = LabelledAmongUnassigned(data_df, n + 1,
                                                   side_square, category)
      ]_vars

\* What the code does: the third component of every triple is the category
\* of the row of the iteration, which is -1, so line 373 keeps all rows.
AllRowsAreCandidates ==
    [][(call = "coarse_dataframe" /\ category' = category + 1) =>
          /\ OnlyUnassigned(SortByDist(Distances(data_df, n + 1)))
                = SortByDist(Distances(data_df, n + 1))
          /\ \A i \in DOMAIN data_df :
                Within(Distance(data_df[i].geometry,
                                data_df[n + 1].geometry),
                       MaxDist(SortByDist(Distances(data_df, n + 1)),
                               side_square))
                    => data_df'[i].category = Str(category)
      ]_vars

----------------------------------------------------------------------------
(* Properties of coarse_dataframe: the returned table *)

\* The (label, date) pairs of the rows when the greedy pass has ended.
LabelDatePairs ==
    {<<data_df[i].category, data_df[i].date>> : i \in DOMAIN data_df}

RowsOfPair(pair) ==
    {i \in DOMAIN data_df :
        data_df[i].category = pair[1] /\ data_df[i].date = pair[2]}

\* C14: the step that returns from coarse_dataframe builds exactly one
\* output row for each (category, date) pair of the labelled rows, made of
\* the rows of that pair; no output row has rows of two dates, and the
\* date of an output row is the date of its rows.
C14_OneRowPerCategoryDate ==
    [][(call = "coarse_dataframe" /\ pc' = "returned") =>
          /\ Cardinality(coarse_out') = Cardinality(LabelDatePairs)
          /\ \A pair \in LabelDatePairs :
                \E r \in coarse_out' :
                    /\ r.members = RowsOfPair(pair)
                    /\ r.date = pair[2]
          /\ \A r \in coarse_out' :
                \A i \in r.members : data_df[i].date = r.date
      ]_vars

\* The call has returned two output rows of the category 0, one for each
\* date.
C14_Witness ==
    /\ call = "coarse_dataframe" /\ pc = "returned"
    /\ \E r1, r2 \in coarse_out :
          /\ r1.date # r2.date
          /\ r1.category = "0_" \o r1.date
          /\ r2.category = "0_" \o r2.date

----------------------------------------------------------------------------
(* coarse_dataframe on a table whose dates have the same points *)

PointSets == (SUBSET (Lats \X Longs)) \ {{}}

\* The orders of the points of a set.
Orders(G) ==
    {s \in [1..Cardinality(G) -> G] :
        \A i, j \in DOMAIN s : s[i] = s[j] => i = j}

\* The tables with one row per point of a set at each date: the rows of
\* the first date, then those of the second, each in some order.
SameGeometryTables ==
    UNION {{[i \in DOMAIN first |->
                [date |-> DateOrder[1], geometry |-> first[i]]]
            \o [i \in DOMAIN second |->
                [date |-> DateOrder[2], geometry |-> second[i]]] :
              first \in Orders(G), second \in Orders(G)} : G \in PointSets}

\* A call coarse_dataframe(data_df, side_square) on such a table; line 360
\* has run.
InitCoarseDates ==
    /\ call = "coarse_dataframe"
    /\ pc = "loop"
    /\ error = NoError
    /\ \E t \in SameGeometryTables :
          data_df = [i \in DOMAIN t |->
                        [date |-> t[i].date, geometry |-> t[i].geometry,
                         category |-> Unassigned]]
    /\ side_square \in 1..MaxBlock
    /\ n = 0
    /\ category = 0
    /\ coarse_out = {}
    /\ IdleFile /\ IdleReadJson /\ IdleVarRead
    /\ IdleTimeSeries /\ IdleFigures /\ IdleMain /\ NothingWritten
    /\ IdleGeopandas

\* The calls of coarse_dataframe on any table of the bounds and on the
\* tables whose dates have the same points.
SpecCoarseDates == (InitCoarse \/ InitCoarseDates) /\ [][NextCoarse]_vars

----------------------------------------------------------------------------
(* Properties of coarse_dataframe: rows of different dates *)

InCoarse == call = "coarse_dataframe"

DatesOfTable == {data_df[i].date : i \in DOMAIN data_df}

GeometriesAt(d) ==
    {data_df[i].geometry : i \in {j \in DOMAIN data_df : data_df[j].date = d}}

LabelsAt(d) ==
    {data_df[i].category : i \in {j \in DOMAIN data_df : data_df[j].date = d}}

SameGeometriesAtEveryDate ==
    \A d1, d2 \in DatesOfTable : GeometriesAt(d1) = GeometriesAt(d2)

\* C15: during the greedy pass of coarse_dataframe, and when it ends, two
\* rows with the same geometry have the same category, whatever their
\* dates; so when every date has the same set of geometries, every date
\* has the same number of blocks, in the labelled table and in the table
\* returned.
C15_SameGeometrySameCategory ==
    /\ (InCoarse /\ pc = "loop") =>
          /\ \A i, j \in DOMAIN data_df :
                data_df[i].geometry = data_df[j].geometry
                    => data_df[i].category = data_df[j].category
          /\ (PassDone /\ SameGeometriesAtEveryDate) =>
                \A d1, d2 \in DatesOfTable :
                    Cardinality(LabelsAt(d1)) = Cardinality(LabelsAt(d2))
    /\ (InCoarse /\ pc = "returned" /\ SameGeometriesAtEveryDate) =>
          \A d1, d2 \in DatesOfTable :
              Cardinality({r \in coarse_out : r.date = d1})
                  = Cardinality({r \in coarse_out : r.date = d2})

\* The call has returned the blocks of a table of two dates with the same
\* points: two blocks or more for each date.
C15_Witness ==
    /\ InCoarse /\ pc = "returned"
    /\ SameGeometriesAtEveryDate
    /\ DatesOfTable = Dates
    /\ \A d \in Dates : Cardinality({r \in coarse_out : r.date = d}) >= 2

----------------------------------------------------------------------------
(* Properties of main: the order of the stages *)

InMain == call = "main"

\* The stages of the time series path, as the code runs them.
TimeSeriesStages ==
    <<"aggregation", "outliers", "smoothing", "aggregation", "export">>

\* The position of the first x in s, 0 when there is none.
FirstIndex(s, x) ==
    IF x \in Range(s)
    THEN CHOOSE k \in DOMAIN s : s[k] = x /\ \A j \in 1..(k - 1) : s[j] # x
    ELSE 0

IsPrefix(s, t) == Len(s) <= Len(t) /\ s = SubSeq(t, 1, Len(s))

\* C16: in a run of main the first stage is the ingestion and the second
\* is the geospatial attachment, whichever path is selected; a run that
\* ends has run the coarsening after it if --spatial_plot was given, and
\* then aggregation, outlier filtering, smoothing and export in this
\* order, the export last.
C16_StagesInOrder ==
    InMain =>
        /\ stages # <<>> => stages[1] = "ingestion"
        /\ Len(stages) >= 2 => stages[2] = "geospatial"
        /\ pc = "main_done" =>
              /\ spatial_plot =>
                    FirstIndex(stages, "geospatial")
                        < FirstIndex(stages, "coarsening")
              /\ 0 < FirstIndex(stages, "aggregation")
              /\ FirstIndex(stages, "aggregation")
                    < FirstIndex(stages, "outliers")
              /\ FirstIndex(stages, "outliers")
                    < FirstIndex(stages, "smoothing")
              /\ FirstIndex(stages, "smoothing")
                    < FirstIndex(stages, "export")
              /\ FirstIndex(stages, "export") = Len(stages)

\* What the code does: without --spatial_plot the stages are the ingestion
\* and those of the time series path, with no geospatial attachment; with
\* --spatial_plot the run ends in the error of convert_to_geopandas, before
\* any coarsening.
StagesAsRun ==
    InMain =>
        /\ ~ spatial_plot =>
              /\ IsPrefix(stages, <<"ingestion">> \o TimeSeriesStages)
              /\ pc = "main_done" =>
                    stages = <<"ingestion">> \o TimeSeriesStages
        /\ spatial_plot =>
              /\ IsPrefix(stages, <<"ingestion", "geospatial">>)
              /\ pc # "main_done"
              /\ pc = "geo_start" => ~ ENABLED GeoConvert
              /\ Len(stages) = 2 => pc \in {"geo_start", "raised"}

----------------------------------------------------------------------------
(* Properties of the ingestion functions: the file handle *)

\* The ingestion function has been left, by a return or by an error.
IngestionExited ==
    \/ /\ call \in {"read_json_to_dataframe",
                    "variable_read_json_to_dataframe"}
       /\ pc \in {"returned", "raised"}
    \/ /\ InMain
       /\ pc \notin {"main_start", "vr_start", "vr_loop"}
       /\ filename # Null

\* C17: when read_json_to_dataframe or variable_read_json_to_dataframe has
\* been left, by its return or by an error of the parsing or of the
\* building of the tables, the file it opened is not open.
C17_FileClosedOnExit ==
    IngestionExited => json_file # "open"

\* What the code does: read_json_to_dataframe opens the file in a with
\* statement and leaves it closed; variable_read_json_to_dataframe leaves
\* it open when it fails, and can leave it open when it returns.
FileClosedByWithOnly ==
    /\ (InReadJson /\ pc \in {"returned", "raised"}) =>
          json_file = IF file = "missing" THEN "none" ELSE "closed"
    /\ (InVarRead /\ pc = "raised" /\ file # "missing") =>
          json_file = "open"

====
